---- MODULE Spec2Model ----
(***************************************************************************)
(* Model of the mesh preprocessing (src/utils.py) and of the disentangled  *)
(* autoencoder pipeline (src/model.py) of 3DVAE-AgeDisentangled.           *)
(*                                                                         *)
(* Python lists and numpy arrays are sequences; the indices they hold are  *)
(* the 0-based indices of the code, so element i of an array a is a[i+1].  *)
(* Four specifications share the variables:                                *)
(*   SpecPrune  remove_mesh_vertices                                       *)
(*   SpecSeg    extract_feature_and_contour_from_colour                    *)
(*   SpecModel  Model.__init__, encode, decode, forward, _reparameterize   *)
(*   SpecPool   Pool on the values of a signal                             *)
(***************************************************************************)
EXTENDS Integers, Sequences, FiniteSets, TLC

VARIABLES
    v_original,        \* utils.py:179 vertex array, one entry per vertex
    f_original,        \* utils.py:179 face array, rows of three vertex indices
    v_idxs_to_remove,  \* utils.py:179 the removal list of the last call
    pruned,            \* outcome of remove_mesh_vertices (status "idle" before the call)
    colored,           \* utils.py:60 the coloured mesh: vertex count, faces, per-vertex colours
    features,          \* utils.py:120 what the last call of the segmentation returned
    first_features,    \* what its first call returned
    seg_runs,          \* calls of the segmentation made so far
    model,             \* model.py:112-132 the flags the Model was constructed with, and its mode
    enc,               \* model.py:266 outcome of the last call of encode
    dec,               \* model.py:297 outcome of the last call of decode
    fwd,               \* model.py:311 outcome of the last call of forward
    pool_in,           \* model.py:53 a sparse operator and two signals it applies to
    pooled             \* model.py:58 what Pool returned for the signals and their combination

prune_vars == <<v_original, f_original, v_idxs_to_remove, pruned>>
seg_vars == <<colored, features, first_features, seg_runs>>
model_vars == <<model, enc, dec, fwd>>
pool_vars == <<pool_in, pooled>>

vars == <<v_original, f_original, v_idxs_to_remove, pruned,
          colored, features, first_features, seg_runs,
          model, enc, dec, fwd, pool_in, pooled>>

-----------------------------------------------------------------------------
(* Bounds of the model *)

MaxVerts == 4      \* vertices of a mesh handed to remove_mesh_vertices
MaxFaces == 2      \* faces of such a mesh
MaxRemove == 2     \* length of a removal list
SegVerts == 6      \* vertices of a mesh handed to the segmentation
NumColours == 2    \* distinct vertex colours of such a mesh
MaxRuns == 2       \* calls of the segmentation on one mesh
latent_size == 3   \* Model(latent_size=...): size of the latent vector
in_channels == 3   \* Model(in_channels=...): channels of the mesh signal
seq_length == 2    \* columns of every spiral index table
BatchSize == 2     \* instances in the batch handed to encode and forward

-----------------------------------------------------------------------------
(* Generic helpers on arrays *)

\* np.arange(0, n)
Arange(n) == [k \in 1..n |-> k - 1]

\* a[mask] : the entries of a whose mask entry is true, in order
RECURSIVE MaskSelect(_, _)
MaskSelect(a, mask) ==
    IF a = <<>> THEN <<>>
    ELSE LET rest == MaskSelect(Tail(a), Tail(mask))
         IN  IF Head(mask) THEN <<Head(a)>> \o rest ELSE rest

SeqRange(s) == {s[k] : k \in 1..Len(s)}

SetMax(S) == CHOOSE m \in S : \A x \in S : x <= m

NoDuplicates(s) == \A i, j \in 1..Len(s) : i # j => s[i] # s[j]

\* all sequences over S of length at most n
SeqsUpTo(S, n) == UNION {[1..k -> S] : k \in 0..n}

-----------------------------------------------------------------------------
(* remove_mesh_vertices, src/utils.py:179-203 *)

\* The position stored for vertex i of an input mesh (a stand-in for its 3D point).
Position(i) == 100 + i

\* Faces are rows of three distinct vertex indices; the code only asks which
\* rows hold an index, never in which column, so rows are drawn ascending.
FaceRows(n) == {<<a, b, c>> : a \in 0..(n - 1), b \in 0..(n - 1), c \in 0..(n - 1)}
AscendingFaceRows(n) == {f \in FaceRows(n) : f[1] < f[2] /\ f[2] < f[3]}

\* Removal indices tried for a mesh of n vertices: every valid index, the
\* first index past the end, the negative index -1 and the negative index
\* -(n+1) that is out of range even for numpy's wrap-around.
RemovalIndices(n) == (0..n) \cup {-1, -(n + 1)}

\* numpy integer-array indexing a[idx] on an axis of length n: an index is
\* accepted when -n <= idx < n, a negative one counts from the end.
NumpyIndexOk(idx, n) == -n <= idx /\ idx < n
NumpyIndex(idx, n) == IF idx < 0 THEN idx + n ELSE idx

\* utils.py:180-181  keep_v_mask = ones(n); keep_v_mask[v_idxs_to_remove] = 0
KeepVMask(n, idxs) ==
    [k \in 1..n |-> ~ \E j \in 1..Len(idxs) : NumpyIndex(idxs[j], n) = k - 1]

\* utils.py:184-188  rows of f holding one of the listed indices (compared as
\* given: a negative index matches no row), sorted and without duplicates
RemoveFIdxs(f, idxs) ==
    {r - 1 : r \in {r \in 1..Len(f) :
                     \E j \in 1..Len(idxs) : \E c \in 1..3 : f[r][c] = idxs[j]}}

\* utils.py:189-190
KeepFMask(f, idxs) == [r \in 1..Len(f) |-> (r - 1) \notin RemoveFIdxs(f, idxs)]

\* utils.py:199  updated_faces.max()
FacesMax(faces) == SetMax({faces[r][c] : r \in 1..Len(faces), c \in 1..3})

\* utils.py:199-200  the slots of arr that arr[val_old] = val_new never writes
UninitSlots(v, f, idxs) ==
    LET mask == KeepVMask(Len(v), idxs)
        updated_faces == MaskSelect(f, KeepFMask(f, idxs))
        val_old == MaskSelect(Arange(Len(v)), mask)
    IN  IF \E j \in 1..Len(idxs) : ~NumpyIndexOk(idxs[j], Len(v)) THEN {}
        ELSE IF updated_faces = <<>> THEN {}
        ELSE (0..FacesMax(updated_faces)) \ SeqRange(val_old)

\* What np.empty leaves in a slot that is never written.
GarbageValues == {0, 99}

\* The whole function. garbage gives the content of the uninitialised slots
\* of arr (np.empty, utils.py:199).
remove_mesh_vertices(v, f, idxs, garbage) ==
    LET n == Len(v)
        keep_v_mask == KeepVMask(n, idxs)
        updated_faces == MaskSelect(f, KeepFMask(f, idxs))
        new_vertices == MaskSelect(v, keep_v_mask)
        val_old == MaskSelect(Arange(n), keep_v_mask)
        val_new == Arange(Len(val_old))
        failed(err) == [status |-> err, new_vertices |-> <<>>,
                        new_faces |-> <<>>, keep_v_mask |-> <<>>]
    IN  IF \E j \in 1..Len(idxs) : ~NumpyIndexOk(idxs[j], n)
        THEN failed("IndexError")                        \* utils.py:181
        ELSE IF updated_faces = <<>>
        THEN failed("ValueError")                        \* utils.py:199 max() of an empty array
        ELSE IF \E k \in 1..Len(val_old) : val_old[k] > FacesMax(updated_faces)
        THEN failed("IndexError")                        \* utils.py:200
        ELSE LET arr == [slot \in 0..FacesMax(updated_faces) |->
                           IF \E k \in 1..Len(val_old) : val_old[k] = slot
                           THEN val_new[CHOOSE k \in 1..Len(val_old) : val_old[k] = slot]
                           ELSE garbage[slot]]
             IN  [status |-> "ok",
                  new_vertices |-> new_vertices,
                  new_faces |-> [r \in 1..Len(updated_faces) |->
                                   [c \in 1..3 |-> arr[updated_faces[r][c]]]],
                  keep_v_mask |-> keep_v_mask]

\* The variables of the other components, while remove_mesh_vertices is studied.
SegUnused ==
    /\ colored = [nv |-> 0, faces |-> <<>>, colors |-> <<>>]
    /\ features = [status |-> "idle", buckets |-> <<>>]
    /\ first_features = [status |-> "idle", buckets |-> <<>>]
    /\ seg_runs = 0

ModelUnused ==
    /\ model = [is_vae |-> FALSE]
    /\ enc = [status |-> "idle"]
    /\ dec = [status |-> "idle"]
    /\ fwd = [status |-> "idle"]

PoolUnused ==
    /\ pool_in = [status |-> "unused"]
    /\ pooled = [status |-> "idle"]

\* The loaded mesh: at least one triangle, between 3 and MaxVerts vertices
\* (a vertex may be referenced by no face).
NotCalled == [status |-> "idle", new_vertices |-> <<>>,
              new_faces |-> <<>>, keep_v_mask |-> <<>>]

InitPrune ==
    /\ \E n \in 3..MaxVerts :
         /\ v_original = [k \in 1..n |-> Position(k - 1)]
         /\ f_original \in SeqsUpTo(AscendingFaceRows(n), MaxFaces) \ {<<>>}
    /\ v_idxs_to_remove = <<>>
    /\ pruned = NotCalled
    /\ SegUnused
    /\ ModelUnused
    /\ PoolUnused

\* One call of remove_mesh_vertices on the loaded mesh.
RemoveMeshVertices ==
    /\ pruned.status = "idle"
    /\ \E idxs \in SeqsUpTo(RemovalIndices(Len(v_original)), MaxRemove) :
         \E garbage \in [UninitSlots(v_original, f_original, idxs) -> GarbageValues] :
           /\ v_idxs_to_remove' = idxs
           /\ pruned' = remove_mesh_vertices(v_original, f_original, idxs, garbage)
    /\ UNCHANGED <<v_original, f_original>>
    /\ UNCHANGED seg_vars
    /\ UNCHANGED model_vars
    /\ UNCHANGED pool_vars

NextPrune == RemoveMeshVertices

SpecPrune == InitPrune /\ [][NextPrune]_vars

-----------------------------------------------------------------------------
(* Claims about remove_mesh_vertices *)

PruneCalled == pruned.status # "idle"
PruneReturned == pruned.status = "ok"

ValidRemovalList ==
    /\ NoDuplicates(v_idxs_to_remove)
    /\ \A j \in 1..Len(v_idxs_to_remove) :
         0 <= v_idxs_to_remove[j] /\ v_idxs_to_remove[j] < Len(v_original)

RemovedPositions == {Position(v_idxs_to_remove[j]) : j \in 1..Len(v_idxs_to_remove)}

\* C1 (as claimed): for a removal list without duplicates and with every
\* index in 0..vertex_count-1, remove_mesh_vertices returns a mesh whose face
\* indices are all below the new vertex count, whose faces reference no
\* removed vertex, and whose vertex count is the input count minus the length
\* of the removal list.
C1_PruningSoundness ==
    (PruneCalled /\ ValidRemovalList) =>
        /\ PruneReturned
        /\ \A r \in 1..Len(pruned.new_faces) : \A c \in 1..3 :
             /\ 0 <= pruned.new_faces[r][c]
             /\ pruned.new_faces[r][c] < Len(pruned.new_vertices)
             /\ pruned.new_vertices[pruned.new_faces[r][c] + 1] \notin RemovedPositions
        /\ Len(pruned.new_vertices) = Len(v_original) - Len(v_idxs_to_remove)

HasOutOfBoundsIndex ==
    \E j \in 1..Len(v_idxs_to_remove) :
        v_idxs_to_remove[j] >= Len(v_original) \/ v_idxs_to_remove[j] < 0

\* C2 (as claimed): a call whose removal list holds an index outside the
\* vertex-count bounds (>= vertex count, or negative) ends in an error and
\* never returns a mesh and keep-mask.
C2_OutOfBoundsFailsLoudly ==
    (PruneCalled /\ HasOutOfBoundsIndex) => ~PruneReturned

\* C3 (as claimed): a call with an empty removal list is a no-op for every
\* mesh: it returns an all-true keep-mask and the vertex and face arrays
\* unchanged.
C3_EmptyRemovalIsNoOp ==
    (PruneCalled /\ v_idxs_to_remove = <<>>) =>
        /\ PruneReturned
        /\ pruned.keep_v_mask = [k \in 1..Len(v_original) |-> TRUE]
        /\ pruned.new_vertices = v_original
        /\ pruned.new_faces = f_original

-----------------------------------------------------------------------------
(* extract_feature_and_contour_from_colour, src/utils.py:60-129 *)

\* Vertex colours are 4-channel arrays; colour number k of the palette.
ColourOf(k) == <<(k % 2) * 255, ((k \div 2) % 2) * 255, ((k \div 4) % 2) * 255, 255>>

\* utils.py:77  str(v_col), the dictionary key of a colour: the text of the
\* array, "[r g b a]", as the sequence of its tokens.
StrKey(col) == <<"[">> \o col \o <<"]">>

\* Meshes handed to the segmentation: a triangle strip and a triangle fan on
\* n vertices, each also with one more vertex that no face references.
StripFaces(n) == [i \in 1..(n - 2) |-> <<i - 1, i, i + 1>>]
FanFaces(n) == [i \in 1..(n - 2) |-> <<0, i, i + 1>>]
SegMeshes ==
    UNION {{[nv |-> n, faces |-> StripFaces(n)],
            [nv |-> n, faces |-> FanFaces(n)],
            [nv |-> n, faces |-> StripFaces(n - 1)]} : n \in 4..SegVerts}

\* utils.py:72  the mesh's edges (trimesh edges_unique), as unordered pairs
EdgesUnique(faces) ==
    UNION {{{faces[r][1], faces[r][2]}, {faces[r][2], faces[r][3]},
            {faces[r][1], faces[r][3]}} : r \in 1..Len(faces)}

\* the elements of a set of integers in ascending order
RECURSIVE SortedSeq(_)
SortedSeq(S) ==
    IF S = {} THEN <<>>
    ELSE LET m == CHOOSE x \in S : \A y \in S : x <= y
         IN  <<m>> \o SortedSeq(S \ {m})

\* utils.py:72-73  graph[i].keys(): the neighbours of vertex i in the order
\* the graph received them; edges_unique lists the edges in ascending order,
\* which makes that the ascending order of the neighbours.
OneRing(faces, i) ==
    SortedSeq({j \in UNION EdgesUnique(faces) : j # i /\ {i, j} \in EdgesUnique(faces)})

\* utils.py:73  graph[i] raises KeyError for a vertex that is on no edge
InGraph(faces, i) == i \in UNION EdgesUnique(faces)

\* utils.py:123-129
is_contour(colors, center_index, ring_indices) ==
    \E k \in 1..Len(ring_indices) :
        colors[ring_indices[k] + 1] # colors[center_index + 1]

\* The dictionary features keeps its keys in insertion order: a sequence of
\* buckets [key, feature, contour].
KeyPos(feats, key) == CHOOSE p \in 1..Len(feats) : feats[p].key = key
HasKey(feats, key) == \E p \in 1..Len(feats) : feats[p].key = key

\* utils.py:77-83  one turn of the bucketing loop
BucketVertex(feats, colors, faces, index) ==
    LET key == StrKey(colors[index + 1])
        feats1 == IF HasKey(feats, key) THEN feats
                  ELSE Append(feats, [key |-> key, feature |-> <<>>, contour |-> <<>>])
        p == KeyPos(feats1, key)
    IN  IF is_contour(colors, index, OneRing(faces, index))
        THEN [feats1 EXCEPT ![p].contour = Append(@, index)]
        ELSE [feats1 EXCEPT ![p].feature = Append(@, index)]

\* utils.py:76-83  the bucketing loop from vertex index on
RECURSIVE BucketPass(_, _, _, _, _)
BucketPass(feats, colors, faces, index, n) ==
    IF index >= n THEN feats
    ELSE BucketPass(BucketVertex(feats, colors, faces, index), colors, faces, index + 1, n)

\* utils.py:92-94  Counter(...).most_common(1)[0][0]: the key counted most
\* often, the first one counted among equals
MostCommon(keys) ==
    LET count(k) == Cardinality({q \in 1..Len(keys) : keys[q] = k})
        first(k) == CHOOSE q \in 1..Len(keys) :
                       keys[q] = k /\ \A q2 \in 1..(q - 1) : keys[q2] # k
        best == CHOOSE k \in SeqRange(keys) :
                   \A k2 \in SeqRange(keys) :
                       \/ count(k2) < count(k)
                       \/ (count(k2) = count(k) /\ first(k) <= first(k2))
    IN  best

RingKeys(colors, faces, idx) ==
    LET ring == OneRing(faces, idx)
    IN  [q \in 1..Len(ring) |-> StrKey(colors[ring[q] + 1])]

\* utils.py:91-98  the loop over the feature list of the bucket at position p,
\* from its element q on; break leaves the loop
RECURSIVE AbsorbVertices(_, _, _, _, _)
AbsorbVertices(feats, colors, faces, p, q) ==
    IF q > Len(feats[p].feature) THEN feats
    ELSE LET idx == feats[p].feature[q]
             most_common == MostCommon(RingKeys(colors, faces, idx))
             t == KeyPos(feats, most_common)
         IN  IF most_common = feats[p].key THEN feats
             ELSE AbsorbVertices(
                    [feats EXCEPT ![t].feature = Append(@, idx),
                                  ![t].contour = Append(@, idx)],
                    colors, faces, p, q + 1)

\* utils.py:87-98  the loop over the buckets from position p on; st holds the
\* dictionary and elem_to_remove
RECURSIVE AbsorbPass(_, _, _, _)
AbsorbPass(st, colors, faces, p) ==
    IF p > Len(st.feats) THEN st
    ELSE IF Len(st.feats[p].feature) < 3
         THEN AbsorbPass([feats |-> AbsorbVertices(st.feats, colors, faces, p, 1),
                          elem_to_remove |-> Append(st.elem_to_remove, st.feats[p].key)],
                         colors, faces, p + 1)
         ELSE AbsorbPass(st, colors, faces, p + 1)

\* utils.py:99-100
PopRemoved(st) ==
    SelectSeq(st.feats, LAMBDA b : b.key \notin SeqRange(st.elem_to_remove))

\* A dictionary that outlives the call (a module-level or default-argument
\* dictionary): the buckets the previous call returned.
NewFeatures_Stale == features.buckets

\* utils.py:75  features = {}
NewFeatures == <<>>

\* The whole function, on a mesh with per-vertex colours.
extract_feature_and_contour_from_colour(mesh) ==
    IF \E i \in 0..(mesh.nv - 1) : ~InGraph(mesh.faces, i)
    THEN [status |-> "KeyError", buckets |-> <<>>]         \* utils.py:73
    ELSE LET bucketed == BucketPass(NewFeatures, mesh.colors, mesh.faces, 0, mesh.nv)
             absorbed == AbsorbPass([feats |-> bucketed, elem_to_remove |-> <<>>],
                                    mesh.colors, mesh.faces, 1)
         IN  [status |-> "ok", buckets |-> PopRemoved(absorbed)]

PruneUnused ==
    /\ v_original = <<>>
    /\ f_original = <<>>
    /\ v_idxs_to_remove = <<>>
    /\ pruned = NotCalled

InitSeg ==
    /\ \E m \in SegMeshes :
         \E cols \in [1..m.nv -> {ColourOf(k) : k \in 0..(NumColours - 1)}] :
           colored = [nv |-> m.nv, faces |-> m.faces, colors |-> cols]
    /\ features = [status |-> "idle", buckets |-> <<>>]
    /\ first_features = [status |-> "idle", buckets |-> <<>>]
    /\ seg_runs = 0
    /\ PruneUnused
    /\ ModelUnused
    /\ PoolUnused

\* One call of extract_feature_and_contour_from_colour on the coloured mesh.
ExtractFeatureAndContour ==
    /\ seg_runs < MaxRuns
    /\ features' = extract_feature_and_contour_from_colour(colored)
    /\ first_features' = IF seg_runs = 0 THEN features' ELSE first_features
    /\ seg_runs' = seg_runs + 1
    /\ UNCHANGED colored
    /\ UNCHANGED prune_vars
    /\ UNCHANGED model_vars
    /\ UNCHANGED pool_vars

NextSeg == ExtractFeatureAndContour

SpecSeg == InitSeg /\ [][NextSeg]_vars

-----------------------------------------------------------------------------
(* Claims about extract_feature_and_contour_from_colour *)

SegReturned == seg_runs >= 1 /\ features.status = "ok"

\* the buckets after the bucketing pass (utils.py:75-83), before absorption
Bucketed == BucketPass(<<>>, colored.colors, colored.faces, 0, colored.nv)

BucketMembers(b) == SeqRange(b.feature) \cup SeqRange(b.contour)

\* vertices found in a returned bucket that is not keyed by their own colour
ReassignedVertices ==
    {v \in 0..(colored.nv - 1) :
        \E q \in 1..Len(features.buckets) :
            /\ features.buckets[q].key # StrKey(colored.colors[v + 1])
            /\ v \in BucketMembers(features.buckets[q])}

\* C7 (as claimed): every vertex of a colour bucket whose feature list has
\* fewer than 3 members is reassigned to the bucket of the most frequent
\* colour among its one-ring neighbours, in both its feature and its contour
\* list, and the tiny bucket is dropped: every vertex of a dropped bucket is
\* present in another bucket of the result. Stated for the vertices whose
\* target bucket is itself returned (a target that is tiny too is dropped
\* with whatever it received).
C7_SmallRegionAbsorption ==
    SegReturned =>
        \A p \in 1..Len(Bucketed) :
            Len(Bucketed[p].feature) < 3 =>
                /\ ~HasKey(features.buckets, Bucketed[p].key)
                /\ \A v \in BucketMembers(Bucketed[p]) :
                     LET most_common == MostCommon(RingKeys(colored.colors, colored.faces, v))
                     IN  HasKey(features.buckets, most_common) =>
                            LET t == features.buckets[KeyPos(features.buckets, most_common)]
                            IN  v \in SeqRange(t.feature) /\ v \in SeqRange(t.contour)

\* the places (bucket, list, position) where vertex v occurs in the result
Occurrences(v) ==
    {<<q, l, k>> \in (1..Len(features.buckets)) \X {"feature", "contour"} \X (1..colored.nv) :
        /\ k <= Len(features.buckets[q][l])
        /\ features.buckets[q][l][k] = v}

\* C8 (as claimed): the returned buckets partition the mesh's vertices: every
\* vertex not reassigned by small-region absorption appears in exactly one
\* bucket, the one keyed by its own colour, and in exactly one of its two
\* lists; no vertex is missing.
C8_BucketsPartitionVertices ==
    SegReturned =>
        \A v \in (0..(colored.nv - 1)) \ ReassignedVertices :
            /\ Cardinality(Occurrences(v)) = 1
            /\ \A o \in Occurrences(v) :
                 features.buckets[o[1]].key = StrKey(colored.colors[v + 1])

-----------------------------------------------------------------------------
(* The autoencoder, src/model.py *)

\* Tensors of the convolutional part are tracked by their shape, a sequence
\* of dimensions; an operation that raises yields ShapeError.
ShapeError == <<-1>>

\* Python indexing seq[i] with i >= 0 or i < 0
PyIndex(seq, i) == IF i < 0 THEN seq[Len(seq) + i + 1] ELSE seq[i + 1]

\* The mesh hierarchy handed to the constructor: vertex counts of the levels,
\* finest first, the channel sizes, and per level a spiral index table
\* (vertices x seq_length) and the sparse down/up operators between
\* neighbouring levels (rows x cols).
LevelVerts == <<6, 3, 2>>
out_channels == <<2, 3>>
spiral_indices ==
    [i \in 1..Len(out_channels) |-> [n_nodes |-> LevelVerts[i], seq_length |-> seq_length]]
down_transform ==
    [i \in 1..Len(out_channels) |-> [rows |-> LevelVerts[i + 1], cols |-> LevelVerts[i]]]
up_transform ==
    [i \in 1..Len(out_channels) |-> [rows |-> LevelVerts[i], cols |-> LevelVerts[i + 1]]]

\* model.py:131
num_vert == PyIndex(down_transform, -1).rows

\* nn.Linear(in, out)
Linear(in, out) == [kind |-> "Linear", in |-> in, out |-> out]

\* model.py:15-24
SpiralConv(in, out, indices) ==
    [kind |-> "SpiralConv", in_channels |-> in, out_channels |-> out,
     indices |-> indices, layer |-> Linear(in * indices.seq_length, out)]

\* model.py:62-64, 77-79
SpiralEnblock(in, out, indices) == [kind |-> "SpiralEnblock", conv |-> SpiralConv(in, out, indices)]
SpiralDeblock(in, out, indices) == [kind |-> "SpiralDeblock", conv |-> SpiralConv(in, out, indices)]

\* nn.Linear.forward on a tensor of shape x
LinearForward(layer, x) ==
    IF x = ShapeError \/ x = <<>> \/ x[Len(x)] # layer.in THEN ShapeError
    ELSE [x EXCEPT ![Len(x)] = layer.out]

\* model.py:30-44  SpiralConv.forward; index_select needs every index of the
\* table (they run up to n_nodes - 1) to exist on the vertex axis of x
SpiralConvForward(conv, x) ==
    LET n_nodes == conv.indices.n_nodes
        seq == conv.indices.seq_length
    IN  IF x = ShapeError THEN ShapeError
        ELSE IF Len(x) = 2
        THEN IF x[1] < n_nodes THEN ShapeError
             ELSE LinearForward(conv.layer, <<n_nodes, seq * x[2]>>)
        ELSE IF Len(x) = 3
        THEN IF x[2] < n_nodes THEN ShapeError
             ELSE LinearForward(conv.layer, <<x[1], n_nodes, seq * x[3]>>)
        ELSE ShapeError                                  \* model.py:40 RuntimeError

\* model.py:53-58  Pool on a batched signal (batch, vertices, channels):
\* gathers the columns of trans on axis 1 and scatter-adds into trans.rows rows
Pool(x, trans) ==
    IF x = ShapeError \/ Len(x) # 3 THEN ShapeError
    ELSE IF x[2] < trans.cols THEN ShapeError
    ELSE <<x[1], trans.rows, x[3]>>

\* model.py:70-73 (F.elu keeps the shape)
SpiralEnblockForward(block, x, down) == Pool(SpiralConvForward(block.conv, x), down)

\* model.py:85-88
SpiralDeblockForward(block, x, up) == SpiralConvForward(block.conv, Pool(x, up))

\* x.view(-1, d1, ..., dk): the leading dimension is what is left of the elements
View(x, dims) ==
    LET RECURSIVE Prod(_)
        Prod(q) == IF q = <<>> THEN 1 ELSE Head(q) * Prod(Tail(q))
    IN  IF x = ShapeError \/ Prod(x) % Prod(dims) # 0 THEN ShapeError
        ELSE <<Prod(x) \div Prod(dims)>> \o dims

\* model.py:146  the condition under which the attribute scalar is set apart
AttributeIsolated(age_disentanglement, old_experiment, model_version) ==
    age_disentanglement /\ old_experiment = FALSE /\ model_version # 23

\* model.py:135-156  self.en_layers as the constructor leaves it
en_layers(m) ==
    [idx \in 1..Len(out_channels) |->
        IF idx = 1
        THEN SpiralEnblock(in_channels, out_channels[idx], spiral_indices[idx])
        ELSE SpiralEnblock(out_channels[idx - 1], out_channels[idx], spiral_indices[idx])]
    \o (IF AttributeIsolated(m.age_disentanglement, m.old_experiment, m.model_version)
        THEN <<Linear(num_vert * PyIndex(out_channels, -1), latent_size - 1)>>
        ELSE <<Linear(num_vert * PyIndex(out_channels, -1), latent_size)>>)
    \o (IF m.is_vae
        THEN <<Linear(num_vert * PyIndex(out_channels, -1), latent_size)>>
        ELSE <<>>)

\* model.py:228-242  self.de_layers
de_layers ==
    <<Linear(latent_size, num_vert * PyIndex(out_channels, -1))>>
    \o [k \in 1..Len(out_channels) |->
          LET idx == k - 1
          IN  IF idx = 0
              THEN SpiralDeblock(PyIndex(out_channels, -idx - 1), PyIndex(out_channels, -idx - 1),
                                 PyIndex(spiral_indices, -idx - 1))
              ELSE SpiralDeblock(PyIndex(out_channels, -idx), PyIndex(out_channels, -idx - 1),
                                 PyIndex(spiral_indices, -idx - 1))]
    \o <<SpiralConv(out_channels[1], in_channels, spiral_indices[1])>>

\* model.py:267-270  the encoder blocks, from layer i (0-based) on
RECURSIVE EncodeBlocks(_, _, _, _)
EncodeBlocks(layers, x, i, n_linear_layers) ==
    IF i >= Len(layers) - n_linear_layers THEN x
    ELSE EncodeBlocks(layers,
                      SpiralEnblockForward(layers[i + 1], x, down_transform[i + 1]),
                      i + 1, n_linear_layers)

\* model.py:272  the flattened signal handed to the final dense maps
EncodeFlat(m, x) ==
    LET layers == en_layers(m)
        n_linear_layers == IF m.is_vae THEN 2 ELSE 1
    IN  View(EncodeBlocks(layers, x, 0, n_linear_layers), <<PyIndex(layers, -1).in>>)

\* encode taking mu from the first of the two final dense maps
MuLayer_FirstDense(m) == IF m.is_vae THEN Len(en_layers(m)) - 1 ELSE Len(en_layers(m))

\* model.py:273, 276  which entries of en_layers produce mu and logvar
MuLayer(m) == Len(en_layers(m))
LogvarLayer(m) == Len(en_layers(m)) - 1

\* torch.sigmoid and exp(0.5 * .) on the values the model draws, in thousandths
Sigmoid(v) == CASE v = -1000 -> 269 [] v = 0 -> 500 [] v = 1000 -> 731
ExpHalf(v) == CASE v = -2000 -> 368 [] v = 0 -> 1000 [] v = 2000 -> 2718

\* Values (in thousandths) of one instance's latent row as the final dense
\* maps put them out, and of one standard-normal draw.
DenseValues == {0, 1000}
LogvarValues == {0, 2000}
EpsValues == {-1000, 1000}

NoneValue == [none |-> TRUE, v |-> <<>>]
Some(v) == [none |-> FALSE, v |-> v]

\* model.py:266-280  encode. dense_mu and dense_logvar are what the two dense
\* maps chosen in MuLayer and LogvarLayer put out for one instance.
encode(m, x, dense_mu, dense_logvar) ==
    LET flat == EncodeFlat(m, x)
        mu_shape == LinearForward(en_layers(m)[MuLayer(m)], flat)
        logvar_shape == IF m.is_vae THEN LinearForward(en_layers(m)[LogvarLayer(m)], flat)
                        ELSE <<>>
    IN  IF mu_shape = ShapeError \/ logvar_shape = ShapeError
        THEN [status |-> "error", mu |-> <<>>, logvar |-> NoneValue,
              mu_layer |-> MuLayer(m), logvar_layer |-> 0]
        ELSE IF m.is_vae
        THEN [status |-> "ok", mu |-> dense_mu, logvar |-> Some(dense_logvar),
              mu_layer |-> MuLayer(m), logvar_layer |-> LogvarLayer(m)]
        ELSE [status |-> "ok", mu |-> [i \in 1..Len(dense_mu) |-> Sigmoid(dense_mu[i])],
              logvar |-> NoneValue, mu_layer |-> MuLayer(m), logvar_layer |-> 0]

\* the sizes of what those two dense maps put out
MuSize(m) == en_layers(m)[MuLayer(m)].out
LogvarSize(m) == IF m.is_vae THEN en_layers(m)[LogvarLayer(m)].out ELSE 0

\* model.py:300-307  the decoder layers after the first, from layer i on
RECURSIVE DecodeBlocks(_, _)
DecodeBlocks(x, i) ==
    LET num_layers == Len(de_layers)
        num_features == num_layers - 2
    IN  IF i >= num_layers THEN x
        ELSE IF i # num_layers - 1
        THEN DecodeBlocks(SpiralDeblockForward(de_layers[i + 1], x,
                                               up_transform[num_features - i + 1]), i + 1)
        ELSE DecodeBlocks(SpiralConvForward(de_layers[i + 1], x), i + 1)

\* model.py:297-308  decode of a batch of latent rows of size Len(z): the
\* shape of the signal it returns, or ShapeError
decode(z) ==
    LET x0 == LinearForward(de_layers[1], <<BatchSize, Len(z)>>)
        x1 == View(x0, <<num_vert, PyIndex(out_channels, -1)>>)
    IN  DecodeBlocks(x1, 1)

\* the batch of mesh signals handed to encode and forward
InputShape == <<BatchSize, LevelVerts[1], in_channels>>

\* z[:, :-1] and z[:, -1] of a latent row
Front(z) == SubSeq(z, 1, Len(z) - 1)
Last(z) == z[Len(z)]

RECURSIVE SumSeq(_)
SumSeq(v) == IF v = <<>> THEN 0 ELSE Head(v) + SumSeq(Tail(v))

\* model.py:163-174, 282-286  mlp_feature: three dense maps on latent_size - 1
\* values. The learned maps are stood for by one fixed map that is not the
\* identity; MlpAccepts tells whether the first dense map accepts the row.
MlpAccepts(v) == Len(v) = latent_size - 1
mlp_feature(v) == [i \in 1..Len(v) |-> 2 * v[i] + 1000]

\* model.py:188-201, 288-295  mlp_loss: with swap_features only the rows
\* batch_diagonal_idx of the batch reach the regressor; its output is one
\* scalar per row, stood for by one fixed map of the row.
mlp_loss(m, v) ==
    [tensor |-> TRUE, val |-> 500 + SumSeq(v),
     rows |-> IF m.swap_features THEN "batch_diagonal_idx" ELSE "all"]

\* model.py:326  mlp_output = 0
ZeroOutput == [tensor |-> FALSE, val |-> 0, rows |-> "none"]

\* torch broadcasting of two rows in a + b
BroadcastOk(a, b) == Len(a) = Len(b) \/ Len(a) = 1 \/ Len(b) = 1
AddBroadcast(a, b) ==
    [i \in 1..(IF Len(a) >= Len(b) THEN Len(a) ELSE Len(b)) |->
        (IF Len(a) = 1 THEN a[1] ELSE a[i]) + (IF Len(b) = 1 THEN b[1] ELSE b[i])]

\* model.py:424-425, 429, 432  eps * std with std = exp(0.5 * logvar)
Noise(eps, logvar) == [i \in 1..Len(logvar) |-> (eps[i] * ExpHalf(logvar[i])) \div 1000]

\* model.py:422-433  whether _reparameterize returns (no shape error)
ReparameterizeOk(mu, logvar, age_disentanglement, old_experiment, model_version) ==
    IF AttributeIsolated(age_disentanglement, old_experiment, model_version)
    THEN mu # <<>> /\ BroadcastOk(Front(mu), logvar)
    ELSE BroadcastOk(mu, logvar)

\* _reparameterize with the noise of the first feature added to the attribute
\* scalar as well (the split of mu left out of the sum)
Reparameterize_PerturbsAttribute(mu, logvar, eps, age_disentanglement, old_experiment, model_version) ==
    IF AttributeIsolated(age_disentanglement, old_experiment, model_version)
    THEN AddBroadcast(Front(mu), Noise(eps, logvar)) \o <<Last(mu) + Noise(eps, logvar)[1]>>
    ELSE AddBroadcast(mu, Noise(eps, logvar))

\* model.py:422-433  _reparameterize, with eps the draw of torch.randn_like(std)
Reparameterize(mu, logvar, eps, age_disentanglement, old_experiment, model_version) ==
    IF AttributeIsolated(age_disentanglement, old_experiment, model_version)
    THEN AddBroadcast(Front(mu), Noise(eps, logvar)) \o <<Last(mu)>>
    ELSE AddBroadcast(mu, Noise(eps, logvar))

\* What a call of forward leaves behind: the returned 5-tuple (out, z, mu,
\* logvar, mlp_output) and, for the claims, the calls it made in order
\* (steps), the argument of decode, the argument of the regressor and the
\* arguments and result of _reparameterize.
NotReparameterized == [called |-> FALSE, mu |-> <<>>, logvar |-> <<>>, eps |-> <<>>, z |-> <<>>]
Reparameterized(mu, logvar, eps, z) ==
    [called |-> TRUE, mu |-> mu, logvar |-> logvar, eps |-> eps, z |-> z]
NotRegressed == [called |-> FALSE, v |-> <<>>, detached |-> FALSE]
Regressed(v, detached) == [called |-> TRUE, v |-> v, detached |-> detached]

Raised(variant, where) ==
    [status |-> "error", variant |-> variant, error |-> where, steps |-> <<>>,
     out |-> ShapeError, z |-> <<>>, mu |-> <<>>, logvar |-> NoneValue,
     mlp_output |-> ZeroOutput, decode_arg |-> <<>>,
     regress_arg |-> NotRegressed, reparam |-> NotReparameterized]

Returned(variant, steps, out, z, mu, logvar, mlp_output, decode_arg, regress_arg, reparam) ==
    [status |-> "ok", variant |-> variant, error |-> "", steps |-> steps,
     out |-> out, z |-> z, mu |-> mu, logvar |-> logvar,
     mlp_output |-> mlp_output, decode_arg |-> decode_arg,
     regress_arg |-> regress_arg, reparam |-> reparam]

\* the sampling step shared by the variants (model.py:317-320 and alike)
Sampled(m) == m.is_vae /\ m.training
SampleOk(m, mu, logvar) ==
    ~Sampled(m) \/ ReparameterizeOk(mu, logvar.v, m.age_disentanglement,
                                    m.old_experiment, m.model_version)
Sample(m, mu, logvar, eps) ==
    IF Sampled(m)
    THEN Reparameterize(mu, logvar.v, eps, m.age_disentanglement,
                        m.old_experiment, m.model_version)
    ELSE mu
SampleRecord(m, mu, logvar, eps) ==
    IF Sampled(m) THEN Reparameterized(mu, logvar.v, eps, Sample(m, mu, logvar, eps))
    ELSE NotReparameterized

\* model.py:313-328  MODEL 1
ForwardModel1(m, e, eps) ==
    LET z == Sample(m, e.mu, e.logvar, eps)
        z_features == Front(z)
        mlp_output == IF m.age_disentanglement THEN mlp_loss(m, z_features) ELSE ZeroOutput
        out == decode(z)
    IN  IF e.status # "ok" THEN Raised("1", "encode")
        ELSE IF ~SampleOk(m, e.mu, e.logvar) THEN Raised("1", "_reparameterize")
        ELSE IF m.age_disentanglement /\ ~MlpAccepts(z_features) THEN Raised("1", "mlp_loss")
        ELSE IF out = ShapeError THEN Raised("1", "decode")
        ELSE Returned("1",
                      <<"encode">> \o (IF Sampled(m) THEN <<"_reparameterize">> ELSE <<>>)
                          \o (IF m.age_disentanglement THEN <<"mlp_loss">> ELSE <<>>)
                          \o <<"decode">>,
                      out, z, e.mu, e.logvar, mlp_output, z,
                      IF m.age_disentanglement THEN Regressed(z_features, FALSE)
                      ELSE NotRegressed,
                      SampleRecord(m, e.mu, e.logvar, eps))

\* MODEL 2 run in the order of MODEL 1: the regressor fed after the sampling,
\* with the feature sub-vector of the sampled vector
ForwardModel2_RegressAfterSampling(m, e, eps) ==
    [ForwardModel1(m, e, eps) EXCEPT !.variant = "2"]

\* model.py:330-346  MODEL 2
ForwardModel2(m, e, eps) ==
    LET mu_features == Front(e.mu)
        mlp_output == IF m.age_disentanglement THEN mlp_loss(m, mu_features) ELSE ZeroOutput
        z == Sample(m, e.mu, e.logvar, eps)
        out == decode(z)
    IN  IF e.status # "ok" THEN Raised("2", "encode")
        ELSE IF m.age_disentanglement /\ ~MlpAccepts(mu_features) THEN Raised("2", "mlp_loss")
        ELSE IF ~SampleOk(m, e.mu, e.logvar) THEN Raised("2", "_reparameterize")
        ELSE IF out = ShapeError THEN Raised("2", "decode")
        ELSE Returned("2",
                      <<"encode">> \o (IF m.age_disentanglement THEN <<"mlp_loss">> ELSE <<>>)
                          \o (IF Sampled(m) THEN <<"_reparameterize">> ELSE <<>>)
                          \o <<"decode">>,
                      out, z, e.mu, e.logvar, mlp_output, z,
                      IF m.age_disentanglement THEN Regressed(mu_features, FALSE)
                      ELSE NotRegressed,
                      SampleRecord(m, e.mu, e.logvar, eps))

\* MODEL 1.1 returning z1, the vector before the feature projection, as z
ForwardModel11_ReturnsZ1(m, e, eps) ==
    LET z1 == Sample(m, e.mu, e.logvar, eps)
        z1_features == Front(z1)
        z1_age == Last(z1)
        z2_features == mlp_feature(z1_features)
        mlp_output == IF m.age_disentanglement THEN mlp_loss(m, z2_features) ELSE ZeroOutput
        z2 == z2_features \o <<z1_age>>
        out == decode(z2)
    IN  IF e.status # "ok" THEN Raised("1.1", "encode")
        ELSE IF ~SampleOk(m, e.mu, e.logvar) THEN Raised("1.1", "_reparameterize")
        ELSE IF ~MlpAccepts(z1_features) THEN Raised("1.1", "mlp_feature")
        ELSE IF out = ShapeError THEN Raised("1.1", "decode")
        ELSE Returned("1.1",
                      <<"encode">> \o (IF Sampled(m) THEN <<"_reparameterize">> ELSE <<>>)
                          \o <<"mlp_feature">>
                          \o (IF m.age_disentanglement THEN <<"mlp_loss">> ELSE <<>>)
                          \o <<"decode">>,
                      out, z1, e.mu, e.logvar, mlp_output, z2,
                      IF m.age_disentanglement THEN Regressed(z2_features, FALSE)
                      ELSE NotRegressed,
                      SampleRecord(m, e.mu, e.logvar, eps))

\* model.py:348-368  MODEL 1.1
ForwardModel11(m, e, eps) ==
    LET z1 == Sample(m, e.mu, e.logvar, eps)
        z1_features == Front(z1)
        z1_age == Last(z1)
        z2_features == mlp_feature(z1_features)
        mlp_output == IF m.age_disentanglement THEN mlp_loss(m, z2_features) ELSE ZeroOutput
        z2 == z2_features \o <<z1_age>>
        out == decode(z2)
    IN  IF e.status # "ok" THEN Raised("1.1", "encode")
        ELSE IF ~SampleOk(m, e.mu, e.logvar) THEN Raised("1.1", "_reparameterize")
        ELSE IF ~MlpAccepts(z1_features) THEN Raised("1.1", "mlp_feature")
        ELSE IF out = ShapeError THEN Raised("1.1", "decode")
        ELSE Returned("1.1",
                      <<"encode">> \o (IF Sampled(m) THEN <<"_reparameterize">> ELSE <<>>)
                          \o <<"mlp_feature">>
                          \o (IF m.age_disentanglement THEN <<"mlp_loss">> ELSE <<>>)
                          \o <<"decode">>,
                      out, z2, e.mu, e.logvar, mlp_output, z2,
                      IF m.age_disentanglement THEN Regressed(z2_features, FALSE)
                      ELSE NotRegressed,
                      SampleRecord(m, e.mu, e.logvar, eps))

\* model.py:370-392  MODEL 2.1
ForwardModel21(m, e, eps) ==
    LET mu1_features == Front(e.mu)
        mu1_age == Last(e.mu)
        mu2_features == mlp_feature(mu1_features)
        mlp_output == IF m.age_disentanglement THEN mlp_loss(m, mu2_features) ELSE ZeroOutput
        mu2 == mu2_features \o <<mu1_age>>
        z == Sample(m, mu2, e.logvar, eps)
        out == decode(z)
    IN  IF e.status # "ok" THEN Raised("2.1", "encode")
        ELSE IF ~MlpAccepts(mu1_features) THEN Raised("2.1", "mlp_feature")
        ELSE IF ~SampleOk(m, mu2, e.logvar) THEN Raised("2.1", "_reparameterize")
        ELSE IF out = ShapeError THEN Raised("2.1", "decode")
        ELSE Returned("2.1",
                      <<"encode", "mlp_feature">>
                          \o (IF m.age_disentanglement THEN <<"mlp_loss">> ELSE <<>>)
                          \o (IF Sampled(m) THEN <<"_reparameterize">> ELSE <<>>)
                          \o <<"decode">>,
                      out, z, mu2, e.logvar, mlp_output, z,
                      IF m.age_disentanglement THEN Regressed(mu2_features, FALSE)
                      ELSE NotRegressed,
                      SampleRecord(m, mu2, e.logvar, eps))

\* model.py:394-418  MODEL 2.2
ForwardModel22(m, e, eps) ==
    LET mu1_features == Front(e.mu)
        mu1_features_detached0 == Front(e.mu)
        mu1_age == Last(e.mu)
        mu2_features == mlp_feature(mu1_features)
        mu1_features_detached == mlp_feature(mu1_features_detached0)
        mlp_output == IF m.age_disentanglement THEN mlp_loss(m, mu1_features_detached)
                      ELSE ZeroOutput
        mu2 == mu2_features \o <<mu1_age>>
        z == Sample(m, mu2, e.logvar, eps)
        out == decode(z)
    IN  IF e.status # "ok" THEN Raised("2.2", "encode")
        ELSE IF ~MlpAccepts(mu1_features) THEN Raised("2.2", "mlp_feature")
        ELSE IF ~SampleOk(m, mu2, e.logvar) THEN Raised("2.2", "_reparameterize")
        ELSE IF out = ShapeError THEN Raised("2.2", "decode")
        ELSE Returned("2.2",
                      <<"encode", "mlp_feature", "mlp_feature">>
                          \o (IF m.age_disentanglement THEN <<"mlp_loss">> ELSE <<>>)
                          \o (IF Sampled(m) THEN <<"_reparameterize">> ELSE <<>>)
                          \o <<"decode">>,
                      out, z, mu2, e.logvar, mlp_output, z,
                      IF m.age_disentanglement THEN Regressed(mu1_features_detached, TRUE)
                      ELSE NotRegressed,
                      SampleRecord(m, mu2, e.logvar, eps))

\* model.py:311-420  forward: the chain of if/elif that picks the variant;
\* with no branch taken the return statement reads unbound locals
forward(m, x, dense_mu, dense_logvar, eps) ==
    LET e == encode(m, x, dense_mu, dense_logvar)
    IN  IF m.model_version = 10 /\ m.extra_layers = FALSE /\ m.detach_features = FALSE
        THEN ForwardModel1(m, e, eps)
        ELSE IF m.model_version = 20 /\ m.extra_layers = FALSE /\ m.detach_features = FALSE
        THEN ForwardModel2(m, e, eps)
        ELSE IF m.model_version = 10 /\ m.extra_layers = TRUE /\ m.detach_features = FALSE
        THEN ForwardModel11(m, e, eps)
        ELSE IF (m.model_version = 20 \/ m.model_version = 23)
                /\ m.extra_layers = TRUE /\ m.detach_features = FALSE
        THEN ForwardModel21(m, e, eps)
        ELSE IF m.model_version = 20 /\ m.extra_layers = TRUE /\ m.detach_features = TRUE
        THEN ForwardModel22(m, e, eps)
        ELSE Raised("none", "UnboundLocalError")

\* model_version as the constructor receives it, in tenths: 1, 2 and 2.3
ModelVersions == {10, 20, 23}

Idle == [status |-> "idle"]

InitModel ==
    /\ model \in [is_vae : BOOLEAN, age_disentanglement : BOOLEAN,
                  old_experiment : BOOLEAN, model_version : ModelVersions,
                  extra_layers : BOOLEAN, detach_features : BOOLEAN,
                  swap_features : BOOLEAN, training : BOOLEAN]
    /\ enc = Idle
    /\ dec = Idle
    /\ fwd = Idle
    /\ PruneUnused
    /\ SegUnused
    /\ PoolUnused

\* the size of the draw of torch.randn_like(std) in a call of forward
EpsSize(m) == IF Sampled(m) THEN LogvarSize(m) ELSE 0

\* model.encode(x) on a batch of mesh signals
Encode ==
    /\ enc.status = "idle" /\ fwd.status = "idle"
    /\ \E dense_mu \in [1..MuSize(model) -> DenseValues] :
         \E dense_logvar \in [1..LogvarSize(model) -> LogvarValues] :
           enc' = encode(model, InputShape, dense_mu, dense_logvar)
    /\ UNCHANGED <<model, dec, fwd>>
    /\ UNCHANGED prune_vars
    /\ UNCHANGED seg_vars
    /\ UNCHANGED pool_vars

\* model.decode(mu) on the mean the last encode returned
Decode ==
    /\ enc.status = "ok" /\ dec.status = "idle"
    /\ dec' = [status |-> IF decode(enc.mu) = ShapeError THEN "error" ELSE "ok",
               arg |-> enc.mu, out |-> decode(enc.mu)]
    /\ UNCHANGED <<model, enc, fwd>>
    /\ UNCHANGED prune_vars
    /\ UNCHANGED seg_vars
    /\ UNCHANGED pool_vars

\* model(x): one call of forward
Forward ==
    /\ enc.status = "idle" /\ fwd.status = "idle"
    /\ \E dense_mu \in [1..MuSize(model) -> DenseValues] :
         \E dense_logvar \in [1..LogvarSize(model) -> LogvarValues] :
           \E eps \in [1..EpsSize(model) -> EpsValues] :
             fwd' = forward(model, InputShape, dense_mu, dense_logvar, eps)
    /\ UNCHANGED <<model, enc, dec>>
    /\ UNCHANGED prune_vars
    /\ UNCHANGED seg_vars
    /\ UNCHANGED pool_vars

NextModel == Encode \/ Decode \/ Forward

SpecModel == InitModel /\ [][NextModel]_vars

-----------------------------------------------------------------------------
(* Claims about the autoencoder *)

ReparamCalled == fwd.status = "ok" /\ fwd.reparam.called

ModelIsolatesAttribute ==
    AttributeIsolated(model.age_disentanglement, model.old_experiment, model.model_version)

\* component i of the noise eps * exp(0.5 * logvar) of the recorded call
ReparamNoise(i) == (fwd.reparam.eps[i] * ExpHalf(fwd.reparam.logvar[i])) \div 1000

\* C4 (as claimed): whenever age_disentanglement is true, the last component
\* of the vector _reparameterize returns equals the last component of the
\* mean: no noise is ever added to the trailing attribute scalar.
C4_AttributeIsolation ==
    (ReparamCalled /\ model.age_disentanglement) =>
        Last(fwd.reparam.z) = Last(fwd.reparam.mu)

\* C4 (amended): when age_disentanglement is true, old_experiment is false and
\* model_version is not 2.3, the vector _reparameterize returns has the size
\* of the mean, its last component is the last component of the mean and
\* every leading component is the mean's plus eps * exp(0.5 * logvar); in
\* every other configuration the noise is added to every component, the last
\* included.
C4_AttributeIsolation_Amended ==
    ReparamCalled =>
        /\ Len(fwd.reparam.z) = Len(fwd.reparam.mu)
        /\ ModelIsolatesAttribute =>
             /\ Last(fwd.reparam.z) = Last(fwd.reparam.mu)
             /\ Len(fwd.reparam.logvar) = Len(fwd.reparam.mu) - 1
             /\ \A i \in 1..(Len(fwd.reparam.mu) - 1) :
                  fwd.reparam.z[i] = fwd.reparam.mu[i] + ReparamNoise(i)
        /\ ~ModelIsolatesAttribute =>
             \A i \in 1..Len(fwd.reparam.mu) :
                  fwd.reparam.z[i] = fwd.reparam.mu[i] + ReparamNoise(i)

\* C4's case: a sampling forward pass of a model that sets the attribute
\* scalar apart, with noise that moved every feature.
C4_Witness ==
    /\ ReparamCalled
    /\ ModelIsolatesAttribute
    /\ \A i \in 1..(Len(fwd.reparam.mu) - 1) : fwd.reparam.z[i] # fwd.reparam.mu[i]

\* C5 (as claimed): for every configuration, decode applied to the mean that
\* encode returned succeeds and returns a signal of the input's shape, and
\* the mean has latent_size components.
C5_EncodeDecodeRoundTrip ==
    dec.status # "idle" =>
        /\ dec.status = "ok"
        /\ dec.out = InputShape
        /\ Len(enc.mu) = latent_size

EncodedVariational == enc.status = "ok" /\ model.is_vae

C10_ForwardReturn ==
    fwd.status = "ok" =>
        /\ fwd.variant \in {"1", "2", "1.1", "2.1", "2.2"}
        /\ fwd.z = fwd.decode_arg
        /\ fwd.out = decode(fwd.decode_arg)
        /\ fwd.logvar.none = ~model.is_vae
        /\ ~model.age_disentanglement =>
             fwd.mlp_output = ZeroOutput /\ ~fwd.regress_arg.called
        /\ model.age_disentanglement =>
             /\ fwd.regress_arg.called
             /\ fwd.mlp_output.tensor
             /\ fwd.mlp_output = mlp_loss(model, fwd.regress_arg.v)

\* C10's case: a sampling forward pass through the feature projection with
\* the regressor on, where the decoded vector differs from the mean.
C10_Witness ==
    /\ fwd.status = "ok"
    /\ fwd.variant = "1.1"
    /\ model.age_disentanglement
    /\ fwd.reparam.called
    /\ fwd.z # fwd.mu
    /\ fwd.z # fwd.reparam.z

\* position of the first call of a name in the recorded calls, 0 if absent
StepPos(steps, name) ==
    IF \E k \in 1..Len(steps) : steps[k] = name
    THEN CHOOSE k \in 1..Len(steps) :
            steps[k] = name /\ \A j \in 1..(k - 1) : steps[j] # name
    ELSE 0

PrimaryMode(version) ==
    /\ model.model_version = version
    /\ model.extra_layers = FALSE
    /\ model.detach_features = FALSE

\* what encode handed to the returned call, rebuilt from the returned tuple
\* (in modes 1 and 2 the returned mu and logvar are encode's)
FwdEncoded == [status |-> "ok", mu |-> fwd.mu, logvar |-> fwd.logvar]

\* C11: with extra_layers and detach_features off, a returned call of forward
\* ends with decode, applied to the vector _reparameterize returned (to the
\* mean when nothing is sampled). In mode 1 the regressor's input is the
\* feature sub-vector z[:, :-1] of that vector and, when sampling, mlp_loss is
\* called after _reparameterize. In mode 2 the regressor's input is the
\* feature sub-vector of the encoder mean, mlp_loss is called before
\* _reparameterize, and neither its input nor its output changes with the
\* draw of the noise.
C11_RegressionOrdering ==
    (fwd.status = "ok" /\ (PrimaryMode(10) \/ PrimaryMode(20))) =>
        /\ fwd.variant = (IF PrimaryMode(10) THEN "1" ELSE "2")
        /\ Last(fwd.steps) = "decode"
        /\ StepPos(fwd.steps, "decode") = Len(fwd.steps)
        /\ fwd.reparam.called = (model.is_vae /\ model.training)
        /\ fwd.regress_arg.called = model.age_disentanglement
        /\ fwd.decode_arg = (IF fwd.reparam.called THEN fwd.reparam.z ELSE fwd.mu)
        /\ fwd.reparam.called => fwd.reparam.mu = fwd.mu
        /\ (PrimaryMode(10) /\ fwd.regress_arg.called) =>
             /\ fwd.regress_arg.v = Front(fwd.decode_arg)
             /\ fwd.reparam.called =>
                  /\ fwd.regress_arg.v = Front(fwd.reparam.z)
                  /\ StepPos(fwd.steps, "_reparameterize")
                        < StepPos(fwd.steps, "mlp_loss")
        /\ (PrimaryMode(20) /\ fwd.regress_arg.called) =>
             /\ fwd.regress_arg.v = Front(fwd.mu)
             /\ fwd.reparam.called =>
                  /\ StepPos(fwd.steps, "mlp_loss")
                        < StepPos(fwd.steps, "_reparameterize")
                  /\ \A eps \in [1..EpsSize(model) -> EpsValues] :
                       /\ ForwardModel2(model, FwdEncoded, eps).regress_arg
                            = fwd.regress_arg
                       /\ ForwardModel2(model, FwdEncoded, eps).mlp_output
                            = fwd.mlp_output

\* C11's case: a sampling call in mode 2 with the regressor on, where the
\* noise moved every feature of the decoded vector away from the mean.
C11_Witness ==
    /\ fwd.status = "ok"
    /\ PrimaryMode(20)
    /\ fwd.reparam.called
    /\ fwd.regress_arg.called
    /\ \A i \in 1..Len(fwd.regress_arg.v) : fwd.decode_arg[i] # fwd.mu[i]

ForwardCalled == fwd.status # "idle"

\* the variants of forward
Variants == {"1", "2", "1.1", "2.1", "2.2"}

\* C14 (as claimed): for every selector triple (model_version 1 or 2,
\* extra_layers on or off, detach_features on or off) a call of forward
\* executes exactly one of the variants and returns its 5-tuple; no
\* combination of the flags runs none of them and fails.
C14_VariantSelectionTotal ==
    (ForwardCalled /\ model.model_version \in {10, 20}) =>
        /\ fwd.variant \in Variants
        /\ fwd.status = "ok"

-----------------------------------------------------------------------------
(* The exact result of remove_mesh_vertices *)

RemovedIndices == SeqRange(v_idxs_to_remove)

\* the faces of the input none of whose three vertices is removed, in order
SurvivingFaces ==
    MaskSelect(f_original,
               [r \in 1..Len(f_original) |->
                    \A c \in 1..3 : f_original[r][c] \notin RemovedIndices])

\* the number of surviving vertices with an original index smaller than v
SurvivorsBelow(v) == Cardinality({u \in 0..(v - 1) : u \notin RemovedIndices})

\* C13 (as claimed): a call of remove_mesh_vertices that returns keeps exactly
\* the faces all three of whose vertices survive, in their original order,
\* and rewrites each vertex index v of a kept face to the number of surviving
\* vertices with a smaller original index; output vertex k is the k-th
\* original vertex whose keep-mask entry is true, and the keep-mask is false
\* exactly at the removed indices.
C13_ExactPruning ==
    PruneReturned =>
        /\ pruned.keep_v_mask = [k \in 1..Len(v_original) |-> (k - 1) \notin RemovedIndices]
        /\ pruned.new_vertices = MaskSelect(v_original, pruned.keep_v_mask)
        /\ Len(pruned.new_faces) = Len(SurvivingFaces)
        /\ \A r \in 1..Len(SurvivingFaces) : \A c \in 1..3 :
             pruned.new_faces[r][c] = SurvivorsBelow(SurvivingFaces[r][c])

-----------------------------------------------------------------------------
(* Pool on the values of a signal, src/model.py:53-58 *)

\* Bounds of the pooling study
PoolVerts == 2      \* rows and columns of the sparse operator
MaxTriples == 2     \* stored (row, column, weight) entries of the operator

\* A signal holds one integer per vertex: Pool gathers and scatters along
\* the vertex axis only and treats every batch instance and every channel
\* alike (value.unsqueeze(-1) broadcasts the weight over the channels).
WeightValues == {-1, 2}
SignalValues == {-1, 3}
ScalarValues == {-1, 2}

\* An uncoalesced sparse tensor: its declared size and its stored entries
\* <<row, column, weight>> in storage order, the same position allowed twice.
SparseOperators ==
    {[rows |-> PoolVerts, cols |-> PoolVerts, triples |-> t] :
        t \in SeqsUpTo((0..(PoolVerts - 1)) \X (0..(PoolVerts - 1)) \X WeightValues,
                       MaxTriples)}

\* model.py:54-55  trans._indices() and trans._values()
TransRow(trans) == [k \in 1..Len(trans.triples) |-> trans.triples[k][1]]
TransCol(trans) == [k \in 1..Len(trans.triples) |-> trans.triples[k][2]]
TransValue(trans) == [k \in 1..Len(trans.triples) |-> trans.triples[k][3]]

\* torch.index_select(x, dim, col)
index_select(x, col) == [k \in 1..Len(col) |-> x[col[k] + 1]]

\* scatter with the largest contribution of a row kept in place of their sum
RECURSIVE scatter_add_KeepsMax(_, _, _)
scatter_add_KeepsMax(src, index, dim_size) ==
    IF src = <<>> THEN [r \in 1..dim_size |-> 0]
    ELSE LET rest == scatter_add_KeepsMax(Front(src), Front(index), dim_size)
             r == Last(index) + 1
         IN  [rest EXCEPT ![r] = IF Last(src) > @ THEN Last(src) ELSE @]

\* scatter_add(src, index, dim, dim_size): starts from zeros and adds src[k]
\* to entry index[k], one stored entry after the other
RECURSIVE scatter_add(_, _, _)
scatter_add(src, index, dim_size) ==
    IF src = <<>> THEN [r \in 1..dim_size |-> 0]
    ELSE LET rest == scatter_add(Front(src), Front(index), dim_size)
         IN  [rest EXCEPT ![Last(index) + 1] = @ + Last(src)]

\* model.py:53-58  Pool on values
PoolValues(x, trans) ==
    LET row == TransRow(trans)
        col == TransCol(trans)
        value == TransValue(trans)
        gathered == index_select(x, col)
        out == [k \in 1..Len(col) |-> gathered[k] * value[k]]
    IN  scatter_add(out, row, trans.rows)

\* a * x + b * y on signals
Combine(a, x, b, y) == [i \in 1..Len(x) |-> a * x[i] + b * y[i]]

PoolIdle == [status |-> "idle"]

InitPool ==
    /\ \E trans \in SparseOperators :
         \E x, y \in [1..trans.cols -> SignalValues] :
           pool_in = [status |-> "ready", trans |-> trans, x |-> x, y |-> y]
    /\ pooled = PoolIdle
    /\ PruneUnused
    /\ SegUnused
    /\ ModelUnused

\* Pool applied to x, to y and to a * x + b * y with the same operator
ApplyPool ==
    /\ pooled.status = "idle"
    /\ \E a, b \in ScalarValues :
         pooled' = [status |-> "ok", a |-> a, b |-> b,
                    of_x |-> PoolValues(pool_in.x, pool_in.trans),
                    of_y |-> PoolValues(pool_in.y, pool_in.trans),
                    of_combined |->
                        PoolValues(Combine(a, pool_in.x, b, pool_in.y), pool_in.trans)]
    /\ UNCHANGED pool_in
    /\ UNCHANGED prune_vars
    /\ UNCHANGED seg_vars
    /\ UNCHANGED model_vars

NextPool == ApplyPool

SpecPool == InitPool /\ [][NextPool]_vars

-----------------------------------------------------------------------------
(* Claims about Pool *)

\* the stored entries of a row, and the sum of weight * signal[column] over them
RowEntries(trans, r) == {k \in 1..Len(trans.triples) : trans.triples[k][1] = r}

RECURSIVE SumOverEntries(_, _, _)
SumOverEntries(trans, x, K) ==
    IF K = {} THEN 0
    ELSE LET k == CHOOSE j \in K : TRUE
         IN  trans.triples[k][3] * x[trans.triples[k][2] + 1]
                + SumOverEntries(trans, x, K \ {k})

\* C12: for every sparse operator (repeated rows and repeated positions
\* allowed), scalars a, b and signals x, y on its columns,
\* Pool(a*x + b*y, op) = a*Pool(x, op) + b*Pool(y, op); the output has the
\* declared number of rows and output[row] is the sum of
\* weight * signal[column] over the stored entries of that row.
C12_PoolLinearity ==
    pooled.status = "ok" =>
        /\ pooled.of_combined = Combine(pooled.a, pooled.of_x, pooled.b, pooled.of_y)
        /\ Len(pooled.of_x) = pool_in.trans.rows
        /\ \A r \in 0..(pool_in.trans.rows - 1) :
             /\ pooled.of_x[r + 1]
                  = SumOverEntries(pool_in.trans, pool_in.x, RowEntries(pool_in.trans, r))
             /\ pooled.of_y[r + 1]
                  = SumOverEntries(pool_in.trans, pool_in.y, RowEntries(pool_in.trans, r))

\* C12's case: an operator with a repeated row fed from two columns, two
\* different signals and a result that is not zero.
C12_Witness ==
    /\ pooled.status = "ok"
    /\ \E r \in 0..(pool_in.trans.rows - 1) :
         /\ Cardinality(RowEntries(pool_in.trans, r)) >= 2
         /\ Cardinality({pool_in.trans.triples[k][2] : k \in RowEntries(pool_in.trans, r)}) >= 2
         /\ pooled.of_combined[r + 1] # 0
    /\ pool_in.x # pool_in.y
    /\ pooled.of_x # pooled.of_y

====
